---- MODULE Spec2Model ----
(***************************************************************************)
(* A model of pfstratsim: the time-stepped portfolio simulation            *)
(* (simulations/simulation.py) with its trigger, problem and solver        *)
(* strategies.  Times are whole days, day 0 is start_time.  Money and      *)
(* proportions are exact rationals extended with the IEEE values NaN and   *)
(* +-inf that the float arithmetic of the program produces on a division   *)
(* by zero.  The statistical estimators (pypfopt, scipy) and the external  *)
(* optimisation engine (pyomo SolverFactory) are library code: the model   *)
(* keeps what the program does with their results.                         *)
(***************************************************************************)
EXTENDS Integers, Sequences, FiniteSets, TLC

(***************************************************************************)
(* Bounds of the model.                                                    *)
(***************************************************************************)
\* last day (end_time) of the small scenarios
MaxDay == 3
\* length of the moving window (window_day) of the scenarios
WindowDay == 3
\* largest crnt_time handed to a trigger by the assessment harness
AssessMaxDay == 29
\* number of days of the end-to-end scenario (days 0 .. EndToEndDays - 1)
EndToEndDays == 100

(***************************************************************************)
(* Optional values: None is Python's None, Some(x) a present value.        *)
(***************************************************************************)
None == <<>>
Some(x) == <<x>>
IsNone(o) == Len(o) = 0
Val(o) == o[1]

(***************************************************************************)
(* Float arithmetic, as exact rationals n/d (d > 0) with the special       *)
(* values NaN = 0/0, +inf = 1/0, -inf = -1/0.                              *)
(***************************************************************************)
Abs(x) == IF x < 0 THEN 0 - x ELSE x
Sign(x) == IF x < 0 THEN 0 - 1 ELSE IF x > 0 THEN 1 ELSE 0

RECURSIVE GCD(_, _)
GCD(a, b) == IF b = 0 THEN a ELSE GCD(b, a % b)

Rat(n, d) ==
    IF d = 0 THEN [n |-> Sign(n), d |-> 0]
    ELSE LET g == GCD(Abs(n), Abs(d))
         IN  [n |-> Sign(d) * Sign(n) * (Abs(n) \div g), d |-> Abs(d) \div g]

Num(i) == Rat(i, 1)
NaN == Rat(0, 0)
IsNaN(x) == x.d = 0 /\ x.n = 0

RAdd(x, y) ==
    IF IsNaN(x) \/ IsNaN(y) THEN NaN
    ELSE IF x.d = 0 /\ y.d = 0 THEN (IF x.n = y.n THEN x ELSE NaN)
    ELSE Rat(x.n * y.d + y.n * x.d, x.d * y.d)

RNeg(x) == [n |-> 0 - x.n, d |-> x.d]
RSub(x, y) == RAdd(x, RNeg(y))

RMul(x, y) ==
    IF IsNaN(x) \/ IsNaN(y) THEN NaN
    ELSE Rat(x.n * y.n, x.d * y.d)

\* x / y of numpy floats: finite/0 is +-inf, 0/0 is NaN
RDiv(x, y) ==
    IF IsNaN(x) \/ IsNaN(y) THEN NaN
    ELSE IF x.d = 0 /\ y.d = 0 THEN NaN
    ELSE Rat(x.n * y.d * (IF y.n < 0 THEN 0 - 1 ELSE 1), x.d * Abs(y.n))

\* x <= y of floats: every comparison with NaN is false
RLe(x, y) ==
    IF IsNaN(x) \/ IsNaN(y) THEN FALSE
    ELSE IF x.d = 0 /\ y.d = 0 THEN x.n <= y.n
    ELSE IF x.d = 0 THEN x.n < 0
    ELSE IF y.d = 0 THEN y.n > 0
    ELSE x.n * y.d <= y.n * x.d

RECURSIVE RSum(_)
RSum(s) == IF Len(s) = 0 THEN Num(0) ELSE RAdd(s[1], RSum(Tail(s)))

Min(S) == CHOOSE x \in S : \A y \in S : x <= y
Max(S) == CHOOSE x \in S : \A y \in S : y <= x


(***************************************************************************)
(* Inputs: the price table and the configuration bundle of a run.          *)
(***************************************************************************)
\* the asset name lists (prices.columns) of the scenarios
AssetLists == {<<"ASSET0", "ASSET1">>, <<"CASH", "ASSET0">>}

\* price of an asset on a day; CASH is the constant series that
\* _add_cash_data builds with interest_rate = 0
SamplePrice(asset_name, d) ==
    IF asset_name = "CASH" THEN 1
    ELSE IF asset_name = "ASSET0" THEN 1 + (d % 2)
    ELSE IF d % 3 = 0 THEN 2 ELSE 1

\* days of the price index: a full history before start_time (day 0) and
\* the days of the horizon except the gap days
PriceIndex(window_day, end_time, gaps) == ((0 - window_day) .. end_time) \ gaps

TriggerClasses == {"regular_basis", "identical_distribution_test", "unknown_trigger"}
ProblemClasses == {"risk_minimization", "sharpe_ratio_maximization", "unknown_problem"}
SolverClasses == {"equal_proportion", "mathematical_programming", "unknown_solver"}
TestMethods == {"anderson_darling", "kolmogorov_smirnov", "unsupported_method"}

\* p-values (in percent) the two-sample tests of scipy.stats deliver
PTable == <<1, 5, 50, 50>>

\* the keyword parameters (**params) of the two triggers
RegularBasisParams(interval) ==
    [trigger_class |-> "regular_basis", reblncng_intrvl_day |-> interval,
     test_method |-> "anderson_darling", prob_thrshld |-> 5, pseed |-> 0]

DistributionTestParams(test_method, pseed) ==
    [trigger_class |-> "identical_distribution_test", reblncng_intrvl_day |-> 1,
     test_method |-> test_method, prob_thrshld |-> 5, pseed |-> pseed]

Config(tp, problem_class, solver_class, columns, gaps, end_time, init, window_day, min_intrvl) ==
    [trigger_class |-> tp.trigger_class,
     problem_class |-> problem_class,
     solver_class |-> solver_class,
     prices |-> [index |-> PriceIndex(window_day, end_time, gaps), columns |-> columns],
     start_time |-> 0,
     end_time |-> end_time,
     init_prtfl_valtn |-> Num(init),
     window_day |-> window_day,
     min_reblncng_intrvl_day |-> min_intrvl,
     reblncng_intrvl_day |-> tp.reblncng_intrvl_day,
     test_method |-> tp.test_method,
     prob_thrshld |-> tp.prob_thrshld,
     pseed |-> tp.pseed]

\* the calendars of the scenarios: gap-free, or one day of the horizon missing
GapSets == {{}} \cup {{g} : g \in 0 .. MaxDay}

\* every combination of the three strategy kinds, the unknown kinds included
KindConfigs ==
    { Config([RegularBasisParams(2) EXCEPT !.trigger_class = tc], pc, sc,
             <<"ASSET0", "ASSET1">>, {}, MaxDay, 100, WindowDay, 1) :
        tc \in TriggerClasses, pc \in ProblemClasses, sc \in SolverClasses }

\* the regular-basis trigger over every calendar, problem, solver and step
RegularConfigs ==
    { Config(RegularBasisParams(i), pc, sc, cols, gaps, MaxDay, 100, WindowDay, m) :
        i \in 1 .. 3, pc \in ProblemClasses \ {"unknown_problem"},
        sc \in SolverClasses \ {"unknown_solver"}, cols \in AssetLists,
        gaps \in GapSets, m \in 1 .. 2 }

\* the distribution test with each test method
DistributionConfigs ==
    { Config(DistributionTestParams(tm, ps), pc, "mathematical_programming", cols,
             gaps, MaxDay, 100, WindowDay, 1) :
        tm \in TestMethods, ps \in 0 .. 1, pc \in ProblemClasses \ {"unknown_problem"},
        cols \in AssetLists, gaps \in {{}, {2}} }

\* a portfolio that starts without money
PennilessConfigs ==
    { Config(RegularBasisParams(2), "risk_minimization", "mathematical_programming",
             cols, {}, MaxDay, 0, WindowDay, 1) : cols \in AssetLists }

SmallConfigs == KindConfigs \cup RegularConfigs \cup DistributionConfigs \cup PennilessConfigs

\* the end-to-end scenario of the specification: gap-free, 2 assets,
\* RegularBasis(7), RiskMinimization, EqualProportion, minimum step 1 day
EndToEndConfig ==
    Config([trigger_class |-> "regular_basis", reblncng_intrvl_day |-> 7,
            test_method |-> "anderson_darling", prob_thrshld |-> 5, pseed |-> 0],
           "risk_minimization", "equal_proportion", <<"ASSET0", "ASSET1">>, {},
           EndToEndDays - 1, 100, WindowDay, 1)

(***************************************************************************)
(* State.                                                                  *)
(***************************************************************************)
VARIABLES
    self,                \* the Simulation object: the fields set by __init__
    pc,                  \* position in execute: "setup", "loop", "finished", "raised"
    crnt_time,           \* the clock of the loop
    reblncng_time_list,  \* times of the successful rebalances
    prev_prices,         \* window of the last rebalance, None before it
    prev_asset_valtns,   \* asset valuations after the last rebalance
    prev_prtfl_valtn,    \* portfolio valuation at the last rebalance
    prtfl_valtn,         \* realized portfolio valuation of the latest tracked step
    solver,              \* the Solver context: the exposed AllocationResult
    problem,             \* the Problem object: the formulation of the last define
    data_history,        \* the named series of the history
    trace,               \* what the latest loop iteration called and got back
    result_written,      \* whether the result files were dumped
    harness              \* arguments and result of a direct call of a trigger

vars == <<self, pc, crnt_time, reblncng_time_list, prev_prices, prev_asset_valtns,
          prev_prtfl_valtn, prtfl_valtn, solver, problem, data_history, trace,
          result_written, harness>>

\* names of the series of data_history, in the order execute creates them
ExpctdSeries == {"asset_expctd_returns", "asset_expctd_risks", "asset_expctd_valtns",
                 "prtfl_expctd_return", "prtfl_expctd_risk", "prtfl_expctd_valtn"}
ObsrvdSeries == {"asset_obsrvd_returns", "asset_obsrvd_risks", "asset_obsrvd_valtns",
                 "prtfl_obsrvd_return", "prtfl_obsrvd_risk", "prtfl_obsrvd_valtn"}
RealizedSeries == {"asset_returns", "asset_valtns", "prtfl_return", "prtfl_valtn"}
ReblncdSeries == {"asset_valtns_reblncd", "asset_props"}
SeriesNames == ExpctdSeries \cup ObsrvdSeries \cup RealizedSeries \cup ReblncdSeries
                 \cup {"idntcl_dstrbtn_prob"}

\* a row of a series: its index label and its content
Row(index, value) == [index |-> index, value |-> value]

EmptyHistory == [name \in SeriesNames |-> <<>>]

\* concat of a one-row frame to a series (pd.concat(..., axis=0))
Concat(history, name, row) == [history EXCEPT ![name] = Append(@, row)]

\* a Solver whose attributes were never assigned
UnsetSolver == [asset_props_ |-> None, asset_expctd_returns_ |-> None,
                asset_expctd_risks_ |-> None, prtfl_expctd_return_ |-> None,
                prtfl_expctd_risk_ |-> None]

\* a Problem before its first define
UnsetProblem == [crnt_time_ |-> None, asset_name_list_ |-> None, cncrt_model_ |-> None]

NoTrace == [time |-> 0 - 1, path |-> "none", calls |-> <<>>, is_reblncng |-> None,
            define |-> None, solve |-> None, engine |-> None, raised |-> None,
            crnt_prices |-> None, prev_crnt_prices |-> None]

NoHarness == [fn |-> "none"]

SimInit(cfg) ==
    /\ self = cfg
    /\ pc = "setup"
    /\ crnt_time = cfg.start_time
    /\ reblncng_time_list = <<>>
    /\ prev_prices = None
    /\ prev_asset_valtns = None
    /\ prev_prtfl_valtn = None
    /\ prtfl_valtn = None
    /\ solver = UnsetSolver
    /\ problem = UnsetProblem
    /\ data_history = EmptyHistory
    /\ trace = NoTrace
    /\ result_written = FALSE
    /\ harness = NoHarness

Init == \E cfg \in SmallConfigs \cup {EndToEndConfig} : SimInit(cfg)

(***************************************************************************)
(* Price slices.  A slice prices[a:b] is the set of its index days, both   *)
(* ends included (label slicing of a DatetimeIndex).                       *)
(***************************************************************************)
\* a slice that runs to the end of the table
Slice_open_end(prices, a, b) == {d \in prices.index : a <= d}

Slice(prices, a, b) == {d \in prices.index : a <= d /\ d <= b}

\* Python position to a position of a sequence of length len (-1 is the last)
PyPos(i, len) == IF i < 0 THEN len + i + 1 ELSE i + 1

Assets(columns) == 1 .. Len(columns)

\* Python truth of a returned value: None and False are falsy
Truthy(r) == ~IsNone(r) /\ Val(r) = TRUE
\* r == False: None is not equal to False
EqFalse(r) == ~IsNone(r) /\ Val(r) = FALSE

(***************************************************************************)
(* Triggers.                                                               *)
(***************************************************************************)
\* a trigger that waits one day too long: < in place of <=
RegularBasis_assess_strict(reblncng_intrvl_day, t, time_list) ==
    [is_reblncng |-> IF Len(time_list) > 0
                     THEN time_list[Len(time_list)] + reblncng_intrvl_day < t
                     ELSE TRUE,
     idntcl_dstrbtn_prob |-> None]

\* a trigger that is due on one day only: = in place of <=
RegularBasis_assess_exact(reblncng_intrvl_day, t, time_list) ==
    [is_reblncng |-> IF Len(time_list) > 0
                     THEN time_list[Len(time_list)] + reblncng_intrvl_day = t
                     ELSE TRUE,
     idntcl_dstrbtn_prob |-> None]

\* a trigger that asks for a rebalance at every step
RegularBasis_assess_always(reblncng_intrvl_day, t, time_list) ==
    [is_reblncng |-> TRUE, idntcl_dstrbtn_prob |-> None]

RegularBasis_assess(reblncng_intrvl_day, t, time_list) ==
    [is_reblncng |-> IF Len(time_list) > 0
                     THEN time_list[Len(time_list)] + reblncng_intrvl_day <= t
                     ELSE TRUE,
     idntcl_dstrbtn_prob |-> None]

\* what stats.anderson_ksamp / stats.kstest return for an asset: library
\* code, a function of the samples; the scenarios tabulate it by day
StatsPValue(pseed, a, t) == Rat(PTable[((pseed + t + a) % Len(PTable)) + 1], 100)

\* stats.anderson_ksamp(...)[2]: the significance level, which the library
\* caps at 0.25
AndersonKsamp(pseed, a, t) ==
    IF RLe(StatsPValue(pseed, a, t), Rat(25, 100)) THEN StatsPValue(pseed, a, t)
    ELSE Rat(25, 100)

\* stats.kstest(...)[1]: the cash series of _add_cash_data has one constant
\* return, so its two samples are equal, the statistic is 0 and the p-value 1
Kstest(asset_name, pseed, a, t) ==
    IF asset_name = "CASH" THEN Num(1) ELSE StatsPValue(pseed, a, t)

\* the assets whose returns assess hands to a function of scipy.stats
TestedAssets(test_method, columns) ==
    {a \in Assets(columns) :
        \/ test_method = "anderson_darling" /\ columns[a] # "CASH"
        \/ test_method = "kolmogorov_smirnov"}

\* an unsupported test method whose p-value is 0 in place of undefined
AssetPValue_zero(test_method, asset_name, pseed, a, t) ==
    IF test_method = "anderson_darling"
    THEN IF asset_name = "CASH" THEN Rat(25, 100) ELSE AndersonKsamp(pseed, a, t)
    ELSE IF test_method = "kolmogorov_smirnov" THEN Kstest(asset_name, pseed, a, t)
    ELSE Rat(0, 100)

\* an Anderson-Darling branch that tests the cash asset like the others
AssetPValue_cash_tested(test_method, asset_name, pseed, a, t) ==
    IF test_method = "anderson_darling"
    THEN AndersonKsamp(pseed, a, t)
    ELSE IF test_method = "kolmogorov_smirnov" THEN Kstest(asset_name, pseed, a, t)
    ELSE NaN

\* the p-value assess stores for one asset
AssetPValue(test_method, asset_name, pseed, a, t) ==
    IF test_method = "anderson_darling"
    THEN IF asset_name = "CASH" THEN Rat(25, 100) ELSE AndersonKsamp(pseed, a, t)
    ELSE IF test_method = "kolmogorov_smirnov" THEN Kstest(asset_name, pseed, a, t)
    ELSE NaN

\* DataFrame.min().min(): the least value that is not NaN, NaN if there is none
FrameMin(values) ==
    LET present == {i \in DOMAIN values : ~IsNaN(values[i])}
    IN  IF present = {} THEN NaN
        ELSE values[CHOOSE i \in present : \A j \in present : RLe(values[i], values[j])]

\* a test that tags its diagnostic with the day before crnt_time
IdenticalDistributionTest_assess_day_before(test_method, prob_thrshld, pseed, t, crnt_prices, prev, columns) ==
    IF ~IsNone(prev)
    THEN LET probs == [a \in Assets(columns) |->
                          AssetPValue(test_method, columns[a], pseed, a, t)]
         IN  [is_reblncng |-> RLe(FrameMin(probs), Rat(prob_thrshld, 100)),
              idntcl_dstrbtn_prob |-> Some(Row(t - 1, probs)),
              tested |-> TestedAssets(test_method, columns)]
    ELSE [is_reblncng |-> TRUE, idntcl_dstrbtn_prob |-> None, tested |-> {}]

\* a test that asks for a rebalance only below the threshold: < in place of <=
IdenticalDistributionTest_assess_strict(test_method, prob_thrshld, pseed, t, crnt_prices, prev, columns) ==
    IF ~IsNone(prev)
    THEN LET probs == [a \in Assets(columns) |->
                          AssetPValue(test_method, columns[a], pseed, a, t)]
         IN  [is_reblncng |-> RLe(FrameMin(probs), Rat(prob_thrshld, 100))
                                /\ FrameMin(probs) # Rat(prob_thrshld, 100),
              idntcl_dstrbtn_prob |-> Some(Row(t, probs)),
              tested |-> TestedAssets(test_method, columns)]
    ELSE [is_reblncng |-> TRUE, idntcl_dstrbtn_prob |-> None, tested |-> {}]

\* a test that does not ask for a rebalance while it has no previous window
IdenticalDistributionTest_assess_idle(test_method, prob_thrshld, pseed, t, crnt_prices, prev, columns) ==
    IF ~IsNone(prev)
    THEN LET probs == [a \in Assets(columns) |->
                          AssetPValue(test_method, columns[a], pseed, a, t)]
         IN  [is_reblncng |-> RLe(FrameMin(probs), Rat(prob_thrshld, 100)),
              idntcl_dstrbtn_prob |-> Some(Row(t, probs)),
              tested |-> TestedAssets(test_method, columns)]
    ELSE [is_reblncng |-> FALSE, idntcl_dstrbtn_prob |-> None, tested |-> {}]

IdenticalDistributionTest_assess(test_method, prob_thrshld, pseed, t, crnt_prices, prev, columns) ==
    IF ~IsNone(prev)
    THEN LET probs == [a \in Assets(columns) |->
                          AssetPValue(test_method, columns[a], pseed, a, t)]
         IN  [is_reblncng |-> RLe(FrameMin(probs), Rat(prob_thrshld, 100)),
              idntcl_dstrbtn_prob |-> Some(Row(t, probs)),
              tested |-> TestedAssets(test_method, columns)]
    ELSE [is_reblncng |-> TRUE, idntcl_dstrbtn_prob |-> None, tested |-> {}]

\* Trigger.assess: the context forwards to the concrete trigger
Trigger_assess(cfg, t, crnt_prices, prev, time_list) ==
    IF cfg.trigger_class = "regular_basis"
    THEN RegularBasis_assess(cfg.reblncng_intrvl_day, t, time_list)
    ELSE IdenticalDistributionTest_assess(cfg.test_method, cfg.prob_thrshld, cfg.pseed,
                                          t, crnt_prices, prev, cfg.prices.columns)

(***************************************************************************)
(* Problems.                                                               *)
(***************************************************************************)
\* expected return of an asset over a window: the estimator is library code
\* (er.ema_historical_return); the scenarios use the return over the window
AssetExpctdReturn(asset_name, window) ==
    RSub(Rat(SamplePrice(asset_name, Max(window)), SamplePrice(asset_name, Min(window))), Num(1))

\* the expected risk of an asset is exactly zero when its price did not move
AssetExpctdRiskIsZero(asset_name, window) ==
    \A d \in window : SamplePrice(asset_name, d) = SamplePrice(asset_name, Min(window))

\* Problem._reset, _build_abst_model and _build_cncrt_model: the formulation.
\* The variables (asset_props, prtfl_expctd_return) have no value yet.
BuildModel(problem_class, window, columns) ==
    [window |-> window,
     asset_expctd_returns |-> [a \in Assets(columns) |-> AssetExpctdReturn(columns[a], window)],
     zero_risk |-> [a \in Assets(columns) |-> AssetExpctdRiskIsZero(columns[a], window)],
     bounds |-> [lb |-> Num(0), ub |-> Num(1)],
     sum_asset_props |-> Num(1),
     objctv |-> IF problem_class = "risk_minimization" THEN "minimize_risk"
                ELSE "maximize_sharpe_ratio",
     asset_props |-> None,
     prtfl_expctd_return |-> None,
     prtfl_expctd_risk |-> None]

\* a validation that accepts every formulation
ValidateModel_lenient(problem_class, model) == TRUE

\* Problem._validate_model and its override of SharpeRatioMaximization
ValidateModel(problem_class, model) ==
    IF problem_class = "sharpe_ratio_maximization"
    THEN ~(\E a \in DOMAIN model.zero_risk : model.zero_risk[a])
    ELSE TRUE

\* Problem.define: the problem after the call and the returned is_success
Problem_define(problem_class, window, columns, t) ==
    LET model == BuildModel(problem_class, window, columns)
    IN  [problem |-> [crnt_time_ |-> Some(t), asset_name_list_ |-> Some(columns),
                      cncrt_model_ |-> Some(model)],
         is_success |-> ValidateModel(problem_class, model)]

(***************************************************************************)
(* Solvers.                                                                *)
(***************************************************************************)
\* value of the constraint expression sum(asset_expctd_returns[a] * asset_props[a])
PrtflExpctdReturn(model, props) ==
    RSum([a \in DOMAIN props |-> RMul(model.asset_expctd_returns[a], props[a])])

\* the risk expression at a point; its value is a square root and stays symbolic
PrtflExpctdRisk(model, props) == [window |-> model.window, asset_props |-> props]

EqualWeights(n) == [a \in 1 .. n |-> Rat(1, n)]
UnitVector(n, k) == [a \in 1 .. n |-> IF a = k THEN Num(1) ELSE Num(0)]
ZeroVector(n) == [a \in 1 .. n |-> Num(0)]

\* What opt.solve of the external engine can come back with: a termination
\* condition and, when the engine loaded a solution, the point it put into
\* the variables.  A certified point satisfies the bounds and constraints of
\* the formulation; the iterate of an interrupted search need not.
EngineOutcomes(model) ==
    LET n == Len(model.asset_expctd_returns)
    IN  [termination : {"optimal"}, point : {Some(EqualWeights(n)), Some(UnitVector(n, 1))}]
        \cup [termination : {"infeasible", "maxTimeLimit", "error"}, point : {None}]
        \cup [termination : {"maxIterations"}, point : {Some(ZeroVector(n))}]

\* the model after a point was loaded into its variables
LoadPoint(model, point) ==
    IF IsNone(point) THEN model
    ELSE [model EXCEPT !.asset_props = point,
                       !.prtfl_expctd_return = Some(PrtflExpctdReturn(model, Val(point))),
                       !.prtfl_expctd_risk = Some(PrtflExpctdRisk(model, Val(point)))]

\* the mapping of the termination condition to is_success
TerminationIsSuccess(termination) ==
    IF termination = "infeasible" THEN FALSE
    ELSE IF termination = "maxTimeLimit" THEN FALSE
    ELSE TRUE

MathematicalProgramming_solve(model, outcome) ==
    [model |-> LoadPoint(model, outcome.point),
     is_success |-> Some(TerminationIsSuccess(outcome.termination))]

\* what EqualProportion.solve hands back: the method has no return statement
EqualProportionReturn == None

\* a solver that puts everything into the first asset
EqualProportion_solve_first(model) ==
    [model |-> LoadPoint(model, Some(UnitVector(Len(model.asset_expctd_returns), 1))),
     is_success |-> EqualProportionReturn]

EqualProportion_solve(model) ==
    [model |-> LoadPoint(model, Some(EqualWeights(Len(model.asset_expctd_returns)))),
     is_success |-> EqualProportionReturn]

\* Solver.solve: the context.  On a truthy is_success it reads the values of
\* the variables back (value() raises on a variable without a value) and
\* assigns its attributes, tagged with problem.crnt_time_.
Solver_solve(slvr, prblm, cncrt) ==
    LET tag == Val(prblm.crnt_time_)
        model == cncrt.model
    IN  IF ~Truthy(cncrt.is_success)
        THEN [solver |-> slvr, is_success |-> cncrt.is_success, raised |-> None]
        ELSE IF IsNone(model.asset_props)
        THEN [solver |-> slvr, is_success |-> cncrt.is_success, raised |-> Some("ValueError")]
        ELSE [solver |->
                 [asset_props_ |-> Some(Row(tag, Val(model.asset_props))),
                  asset_expctd_returns_ |-> Some(Row(tag, model.asset_expctd_returns)),
                  asset_expctd_risks_ |-> Some(Row(tag, [window |-> model.window])),
                  prtfl_expctd_return_ |-> Some(Row(tag, Val(model.prtfl_expctd_return))),
                  prtfl_expctd_risk_ |-> Some(Row(tag, Val(model.prtfl_expctd_risk)))],
              is_success |-> cncrt.is_success, raised |-> None]

(***************************************************************************)
(* The simulation: Simulation.execute.                                     *)
(***************************************************************************)
edit_index(data, edited_index, date_time) ==
    [data EXCEPT ![PyPos(edited_index, Len(data))].index = date_time]

\* the branch of the first time: the three seed valuation rows
SeedRows(history, t, init) ==
    LET h1 == Concat(history, "prtfl_expctd_valtn", Row(t, init))
        h2 == Concat(h1, "prtfl_obsrvd_valtn", Row(t, init))
    IN  Concat(h2, "prtfl_valtn", Row(t, init))

\* the expected track: rows of the exposed AllocationResult, the last row of
\* each series re-indexed to prev_time
ExpctdRows(history, prev_time, slvr, pav, ppv) ==
    LET returns == Val(slvr.asset_expctd_returns_)
        asset_expctd_valtns ==
            Row(returns.index,
                [a \in DOMAIN pav |-> RMul(pav[a], RAdd(Num(1), returns.value[a]))])
        prtfl_expctd_valtn ==
            Row(Val(slvr.prtfl_expctd_return_).index,
                RMul(ppv, RAdd(Num(1), Val(slvr.prtfl_expctd_return_).value)))
        h1 == Concat(history, "asset_expctd_returns", returns)
        h2 == Concat(h1, "asset_expctd_risks", Val(slvr.asset_expctd_risks_))
        h3 == Concat(h2, "asset_expctd_valtns", asset_expctd_valtns)
        h4 == Concat(h3, "prtfl_expctd_return", Val(slvr.prtfl_expctd_return_))
        h5 == Concat(h4, "prtfl_expctd_risk", Val(slvr.prtfl_expctd_risk_))
        h6 == Concat(h5, "prtfl_expctd_valtn", prtfl_expctd_valtn)
    IN  [name \in SeriesNames |->
            IF name \in ExpctdSeries THEN edit_index(h6[name], 0 - 1, prev_time)
            ELSE h6[name]]

\* the observed track: statistics of prices[last rebalance : latest_time]; the
\* estimators are library code, a row keeps the slice it was computed from
ObsrvdRows(history, t, prev_crnt_prices, slvr) ==
    LET stat == [first |-> Min(prev_crnt_prices), last |-> Max(prev_crnt_prices)]
        prtfl == [first |-> stat.first, last |-> stat.last,
                  asset_props |-> Val(slvr.asset_props_).value]
        h1 == Concat(history, "asset_obsrvd_returns", Row(t, stat))
        h2 == Concat(h1, "asset_obsrvd_risks", Row(t, stat))
        h3 == Concat(h2, "asset_obsrvd_valtns", Row(t, stat))
        h4 == Concat(h3, "prtfl_obsrvd_return", Row(t, prtfl))
        h5 == Concat(h4, "prtfl_obsrvd_risk", Row(t, prtfl))
    IN  Concat(h5, "prtfl_obsrvd_valtn", Row(t, prtfl))

\* realized return of each asset between the first and the last row of the slice
AssetReturns(columns, prev_crnt_prices) ==
    [a \in Assets(columns) |->
        RSub(Rat(SamplePrice(columns[a], Max(prev_crnt_prices)),
                 SamplePrice(columns[a], Min(prev_crnt_prices))), Num(1))]

\* the realized track: asset and portfolio returns and valuations
Realized(columns, prev_crnt_prices, pav, ppv) ==
    LET asset_returns == AssetReturns(columns, prev_crnt_prices)
        asset_valtns == [a \in DOMAIN pav |-> RMul(pav[a], RAdd(Num(1), asset_returns[a]))]
        prtfl_return == RDiv(RSub(RSum(asset_valtns), RSum(pav)), RSum(pav))
    IN  [asset_returns |-> asset_returns,
         asset_valtns |-> asset_valtns,
         prtfl_return |-> prtfl_return,
         prtfl_valtn |-> RMul(ppv, RAdd(Num(1), prtfl_return))]

RealizedRows(history, t, r) ==
    LET h1 == Concat(history, "asset_returns", Row(t, r.asset_returns))
        h2 == Concat(h1, "asset_valtns", Row(t, r.asset_valtns))
        h3 == Concat(h2, "prtfl_return", Row(t, r.prtfl_return))
    IN  Concat(h3, "prtfl_valtn", Row(t, r.prtfl_valtn))

\* a loop that does not look the date-time up in the price table
InPricesAlways(prices, t) == TRUE

\* whether crnt_time is a date-time of the price table
InPrices(prices, t) == t \in prices.index

\* a gap that moves the clock by the minimum interval
AfterGap_min_interval(t) == t + self.min_reblncng_intrvl_day

\* the clock after an iteration that found no prices
AfterGap(t) == t + 1

\* a loop that skips the rest of an iteration after a success
IsFailure_inverted(is_success) == Truthy(is_success)

\* a loop that goes on after a failure
IsFailureNever(is_success) == FALSE

\* is_success == False, the test that skips the rest of an iteration
IsFailure(is_success) == EqFalse(is_success)

\* valuations after a rebalance that are not scaled by the portfolio valuation
RebalancedValuations_unscaled(valtn, props) == props

\* prtfl_valtn.iloc[0, 0] * solver.asset_props_
RebalancedValuations(valtn, props) == [a \in DOMAIN props |-> RMul(valtn, props[a])]

\* a list that keeps only the latest rebalance time
RecordRebalanceTime_latest(time_list, t) == <<t>>

\* reblncng_time_list.append(crnt_time)
RecordRebalanceTime(time_list, t) == Append(time_list, t)

\* One iteration of the while loop at crnt_time, given what the external
\* engine would answer if it is asked: the path taken and the state after it.
Iteration(eo) ==
    LET t == crnt_time
        m == self.min_reblncng_intrvl_day
        columns == self.prices.columns
        frame == [pc |-> "loop", crnt_time |-> AfterGap(t),
                  reblncng_time_list |-> reblncng_time_list, prev_prices |-> prev_prices,
                  prev_asset_valtns |-> prev_asset_valtns,
                  prev_prtfl_valtn |-> prev_prtfl_valtn, prtfl_valtn |-> prtfl_valtn,
                  solver |-> solver, problem |-> problem, data_history |-> data_history,
                  trace |-> [NoTrace EXCEPT !.time = t, !.path = "gap"]]
    IN
    IF ~InPrices(self.prices, t) THEN frame
    ELSE
    LET oldest_time == t - self.window_day
        latest_time == t - 1
        crnt_prices == Slice(self.prices, oldest_time, latest_time)
        assessed == Trigger_assess(self, t, crnt_prices, prev_prices, reblncng_time_list)
        h0 == IF IsNone(assessed.idntcl_dstrbtn_prob) THEN data_history
              ELSE Concat(data_history, "idntcl_dstrbtn_prob", Val(assessed.idntcl_dstrbtn_prob))
        first_time == Len(reblncng_time_list) = 0
        prev_crnt_prices ==
            Slice(self.prices, reblncng_time_list[Len(reblncng_time_list)], latest_time)
        realized == Realized(columns, prev_crnt_prices, Val(prev_asset_valtns),
                             Val(prev_prtfl_valtn))
        h1 == IF first_time THEN SeedRows(h0, t, self.init_prtfl_valtn)
              ELSE RealizedRows(
                     ObsrvdRows(
                       ExpctdRows(h0, t - m, solver, Val(prev_asset_valtns),
                                  Val(prev_prtfl_valtn)),
                       t, prev_crnt_prices, solver),
                     t, realized)
        pv == IF first_time THEN self.init_prtfl_valtn ELSE realized.prtfl_valtn
        calls1 == IF first_time THEN <<"assess">> ELSE <<"assess", "statistics">>
        tracked == [frame EXCEPT !.trace.path = "hold", !.crnt_time = t + m, !.data_history = h1,
                                 !.prtfl_valtn = Some(pv),
                                 !.trace.calls = calls1,
                                 !.trace.crnt_prices = Some(crnt_prices),
                                 !.trace.prev_crnt_prices =
                                     IF first_time THEN None ELSE Some(prev_crnt_prices),
                                 !.trace.is_reblncng = Some(assessed.is_reblncng)]
    IN
    IF ~assessed.is_reblncng THEN tracked
    ELSE
    LET defined == Problem_define(self.problem_class, crnt_prices, columns, t)
        after_define == [tracked EXCEPT !.trace.path = "define_failed", !.problem = defined.problem,
                                        !.trace.calls = Append(calls1, "define"),
                                        !.trace.define = Some(defined.is_success)]
    IN
    IF IsFailure(Some(defined.is_success)) THEN after_define
    ELSE
    LET model == Val(defined.problem.cncrt_model_)
        cncrt == IF self.solver_class = "equal_proportion" THEN EqualProportion_solve(model)
                 ELSE MathematicalProgramming_solve(model, eo)
        solved_problem == [defined.problem EXCEPT !.cncrt_model_ = Some(cncrt.model)]
        solved == Solver_solve(solver, solved_problem, cncrt)
        after_solve == [after_define EXCEPT !.trace.path = "solve_failed", !.problem = solved_problem,
                                            !.solver = solved.solver,
                                            !.trace.calls = Append(@, "solve"),
                                            !.trace.solve = solved.is_success,
                                            !.trace.engine =
                                                IF self.solver_class = "equal_proportion"
                                                THEN None ELSE Some(eo.termination)]
    IN
    IF ~IsNone(solved.raised)
    THEN [after_solve EXCEPT !.trace.path = "raised", !.pc = "raised", !.crnt_time = t,
                             !.trace.raised = solved.raised]
    ELSE IF IsFailure(solved.is_success) THEN after_solve
    ELSE IF IsNone(solved.solver.asset_props_)
    THEN [after_solve EXCEPT !.trace.path = "raised", !.pc = "raised", !.crnt_time = t,
                             !.trace.raised = Some("AttributeError")]
    ELSE
    LET asset_props == Val(solved.solver.asset_props_)
        asset_valtns_reblncd ==
            Row(asset_props.index, RebalancedValuations(pv, asset_props.value))
        h2 == Concat(Concat(h1, "asset_props", asset_props),
                     "asset_valtns_reblncd", asset_valtns_reblncd)
    IN  [after_solve EXCEPT !.trace.path = "rebalanced", !.data_history = h2,
                            !.reblncng_time_list = RecordRebalanceTime(reblncng_time_list, t),
                            !.prev_prices = Some(crnt_prices),
                            !.prev_asset_valtns = Some(asset_valtns_reblncd.value),
                            !.prev_prtfl_valtn = Some(pv)]

\* the answers of the engine that matter to an iteration
Answers ==
    IF self.solver_class = "mathematical_programming"
    THEN EngineOutcomes([asset_expctd_returns |-> self.prices.columns])
    ELSE {[termination |-> "optimal", point |-> None]}

LoopIteration ==
    /\ pc = "loop"
    /\ crnt_time <= self.end_time
    /\ \E eo \in Answers :
         \E r \in {Iteration(eo)} :
             /\ pc' = r.pc
             /\ crnt_time' = r.crnt_time
             /\ reblncng_time_list' = r.reblncng_time_list
             /\ prev_prices' = r.prev_prices
             /\ prev_asset_valtns' = r.prev_asset_valtns
             /\ prev_prtfl_valtn' = r.prev_prtfl_valtn
             /\ prtfl_valtn' = r.prtfl_valtn
             /\ solver' = r.solver
             /\ problem' = r.problem
             /\ data_history' = r.data_history
             /\ trace' = r.trace
    /\ UNCHANGED <<self, result_written, harness>>

\* a set-up that does not check the solver kind
SetupOutcomeNoSolverCheck(cfg) ==
    IF cfg.trigger_class \notin {"regular_basis", "identical_distribution_test"}
    THEN "raised"
    ELSE IF cfg.problem_class \notin {"risk_minimization", "sharpe_ratio_maximization"}
    THEN "raised"
    ELSE "loop"

\* the checks of the three kinds at the head of execute, in their order:
\* "loop" when the time loop is entered, "raised" on a ValueError
SetupOutcome(cfg) ==
    IF cfg.trigger_class \notin {"regular_basis", "identical_distribution_test"}
    THEN "raised"
    ELSE IF cfg.problem_class \notin {"risk_minimization", "sharpe_ratio_maximization"}
    THEN "raised"
    ELSE IF cfg.solver_class \notin {"equal_proportion", "mathematical_programming"}
    THEN "raised"
    ELSE "loop"

\* the set-up of execute: the three strategy objects, or a ValueError
Setup ==
    /\ pc = "setup"
    /\ pc' = SetupOutcome(self)
    /\ trace' = IF pc' = "raised" THEN [NoTrace EXCEPT !.raised = Some("ValueError")] ELSE trace
    /\ UNCHANGED <<self, crnt_time, reblncng_time_list, prev_prices, prev_asset_valtns,
                   prev_prtfl_valtn, prtfl_valtn, solver, problem, data_history,
                   result_written, harness>>

\* names of the two summary views
ViewNames == {"prtfl_expctd_value", "prtfl_obsrvd_value"}

\* frame[column] = series on a frame that has an index: the value of the
\* series at each label of the frame, NaN (None here) where it has none
Reindexed(series, label) ==
    IF \E j \in DOMAIN series : series[j].index = label
    THEN Some(series[CHOOSE j \in DOMAIN series : series[j].index = label].value)
    ELSE None

\* a series with a repeated label cannot be reindexed (pandas raises ValueError)
HasRepeatedLabel(series) ==
    \E i \in DOMAIN series : \E j \in DOMAIN series : i # j /\ series[i].index = series[j].index

\* a summary view: an empty frame whose first column, the valuation series,
\* gives it its index; the other columns are aligned to that index by label.
\* The risk is symbolic, so the bands and the ratio keep their operands.
SummaryView(valtn, return, risk) ==
    [i \in DOMAIN valtn |->
        Row(valtn[i].index,
            [valtn |-> Some(valtn[i].value),
             return |-> Reindexed(return, valtn[i].index),
             risk |-> Reindexed(risk, valtn[i].index),
             lower |-> [minus |-> Reindexed(return, valtn[i].index),
                        risk |-> Reindexed(risk, valtn[i].index)],
             upper |-> [plus |-> Reindexed(return, valtn[i].index),
                        risk |-> Reindexed(risk, valtn[i].index)],
             sharpe_ratio |-> [over |-> Reindexed(return, valtn[i].index),
                               risk |-> Reindexed(risk, valtn[i].index)]])]

\* after the loop: the two summary views and the dump of the history.  The
\* views select the columns of the portfolio series by name, a KeyError on a
\* series that never got a row.
Finish ==
    /\ pc = "loop"
    /\ crnt_time > self.end_time
    /\ LET sources == {"prtfl_expctd_return", "prtfl_expctd_risk",
                       "prtfl_obsrvd_return", "prtfl_obsrvd_risk"}
           missing == \E name \in sources \cup {"prtfl_expctd_valtn", "prtfl_obsrvd_valtn"} :
                          Len(data_history[name]) = 0
           repeated == \E name \in sources : HasRepeatedLabel(data_history[name])
           views == [prtfl_expctd_value |->
                        SummaryView(data_history["prtfl_expctd_valtn"],
                                    data_history["prtfl_expctd_return"],
                                    data_history["prtfl_expctd_risk"]),
                     prtfl_obsrvd_value |->
                        SummaryView(data_history["prtfl_obsrvd_valtn"],
                                    data_history["prtfl_obsrvd_return"],
                                    data_history["prtfl_obsrvd_risk"])]
       IN  /\ pc' = IF missing \/ repeated THEN "raised" ELSE "finished"
           /\ result_written' = (pc' = "finished")
           /\ trace' = IF missing THEN [NoTrace EXCEPT !.raised = Some("KeyError")]
                       ELSE IF repeated THEN [NoTrace EXCEPT !.raised = Some("ValueError")]
                       ELSE trace
           /\ data_history' =
                 IF pc' = "finished"
                 THEN [name \in SeriesNames \cup ViewNames |->
                          IF name \in SeriesNames THEN data_history[name] ELSE views[name]]
                 ELSE data_history
    /\ UNCHANGED <<self, crnt_time, reblncng_time_list, prev_prices, prev_asset_valtns,
                   prev_prtfl_valtn, prtfl_valtn, solver, problem, harness>>

Next ==
    \/ Setup
    \/ LoopIteration
    \/ Finish

Spec == Init /\ [][Next]_vars

(***************************************************************************)
(* Direct calls of the triggers: assess as a function of its arguments.    *)
(***************************************************************************)
\* rebalance-time lists and windows handed to the triggers
AssessTimeLists == {<<>>, <<0>>, <<0, 1>>, <<0, 7>>, <<2>>}
AssessWindows == {(0 - 3) .. (0 - 1), 0 .. 2}

RegularBasisCalls ==
    [fn : {"regular_basis"}, reblncng_intrvl_day : {1, 7, 28},
     crnt_time : 0 .. AssessMaxDay, reblncng_time_list : AssessTimeLists, result : {None}]

DistributionTestCalls ==
    [fn : {"identical_distribution_test"}, test_method : TestMethods,
     prob_thrshld : {1, 5, 25}, pseed : 0 .. 1, crnt_time : 3 .. 4,
     crnt_prices : AssessWindows, prev_prices : {None} \cup {Some(w) : w \in AssessWindows},
     columns : AssetLists, result : {None}]

AssessInit ==
    /\ harness \in RegularBasisCalls \cup DistributionTestCalls
    /\ self = EndToEndConfig
    /\ pc = "harness"
    /\ crnt_time = 0
    /\ reblncng_time_list = <<>>
    /\ prev_prices = None
    /\ prev_asset_valtns = None
    /\ prev_prtfl_valtn = None
    /\ prtfl_valtn = None
    /\ solver = UnsetSolver
    /\ problem = UnsetProblem
    /\ data_history = EmptyHistory
    /\ trace = NoTrace
    /\ result_written = FALSE

SimVars == <<self, pc, crnt_time, reblncng_time_list, prev_prices, prev_asset_valtns,
             prev_prtfl_valtn, prtfl_valtn, solver, problem, data_history, trace,
             result_written>>

CallRegularBasis ==
    /\ pc = "harness"
    /\ harness.fn = "regular_basis"
    /\ IsNone(harness.result)
    /\ harness' = [harness EXCEPT !.result =
                      Some(RegularBasis_assess(harness.reblncng_intrvl_day, harness.crnt_time,
                                               harness.reblncng_time_list))]
    /\ UNCHANGED SimVars

CallDistributionTest ==
    /\ pc = "harness"
    /\ harness.fn = "identical_distribution_test"
    /\ IsNone(harness.result)
    /\ harness' = [harness EXCEPT !.result =
                      Some(IdenticalDistributionTest_assess(
                               harness.test_method, harness.prob_thrshld, harness.pseed,
                               harness.crnt_time, harness.crnt_prices, harness.prev_prices,
                               harness.columns))]
    /\ UNCHANGED SimVars

AssessNext ==
    \/ CallRegularBasis
    \/ CallDistributionTest

SpecAssess == AssessInit /\ [][AssessNext]_vars

(***************************************************************************)
(* Properties.                                                             *)
(***************************************************************************)
Last(seq) == seq[Len(seq)]

\* C1: RegularBasis.assess returns true on an empty rebalance-time list and
\* otherwise true exactly when crnt_time - last rebalance time >= the
\* interval; with interval 28 and the last rebalance on day 0 it is false on
\* the days 1..27 and true on day 28; the diagnostic is always none.
C1_RegularBasisAssess ==
    (harness.fn = "regular_basis" /\ ~IsNone(harness.result)) =>
        LET times == harness.reblncng_time_list
            t == harness.crnt_time
            interval == harness.reblncng_intrvl_day
            r == Val(harness.result)
        IN  /\ Len(times) = 0 => r.is_reblncng = TRUE
            /\ Len(times) > 0 => (r.is_reblncng <=> t - Last(times) >= interval)
            /\ (interval = 28 /\ times = <<0>> /\ t \in 1 .. 27) => r.is_reblncng = FALSE
            /\ (interval = 28 /\ times = <<0>> /\ t = 28) => r.is_reblncng = TRUE
            /\ IsNone(r.idntcl_dstrbtn_prob)

C1_Witness ==
    /\ harness.fn = "regular_basis"
    /\ harness.reblncng_intrvl_day = 28
    /\ harness.reblncng_time_list = <<0>>
    /\ harness.crnt_time = 28
    /\ ~IsNone(harness.result)
    /\ Val(harness.result).is_reblncng = TRUE

\* C2: with the EqualProportion strategy, Solver.solve on a formulation that
\* define accepted returns success = true and afterwards exposes the
\* AllocationResult (proportions, implied return, implied risk).
C2_EqualProportionSucceeds ==
    (self.solver_class = "equal_proportion" /\ trace.define = Some(TRUE)) =>
        /\ trace.solve = Some(TRUE)
        /\ ~IsNone(solver.asset_props_)
        /\ ~IsNone(solver.prtfl_expctd_return_)
        /\ ~IsNone(solver.prtfl_expctd_risk_)

\* C3: the end-to-end run (gap-free, 2 assets, 100 days, RegularBasis(7),
\* RiskMinimization(0.5), EqualProportion, minimum step 1 day) runs to
\* completion and has floor(100/7) rows in the asset-proportion history.
C3_EndToEnd ==
    self = EndToEndConfig =>
        /\ pc # "raised"
        /\ pc = "finished" =>
              Len(data_history["asset_props"]) = EndToEndDays \div self.reblncng_intrvl_day

\* the iteration about to run is one of the loop body (not the exit of the loop)
InLoop == pc = "loop" /\ crnt_time <= self.end_time

\* C4: an iteration in which Problem.define or Solver.solve returned failure
\* leaves the rolling state (rebalance-time list, previous window, last asset
\* valuations, last portfolio valuation, exposed proportions) as it was,
\* appends nothing to the proportion and rebalanced-valuation histories,
\* advances the clock by the minimum interval and stays in the loop.
C4_FailureIsNoOp ==
    [][(InLoop /\ (trace'.define = Some(FALSE) \/ trace'.solve = Some(FALSE))) =>
          /\ UNCHANGED <<reblncng_time_list, prev_prices, prev_asset_valtns,
                         prev_prtfl_valtn, solver>>
          /\ data_history'["asset_props"] = data_history["asset_props"]
          /\ data_history'["asset_valtns_reblncd"] = data_history["asset_valtns_reblncd"]
          /\ crnt_time' = crnt_time + self.min_reblncng_intrvl_day
          /\ pc' = "loop"]_vars

C4_Witness ==
    /\ trace.solve = Some(FALSE)
    /\ trace.path = "solve_failed"
    /\ Len(reblncng_time_list) > 0
    /\ pc = "loop"

\* C5: an iteration at a date-time without prices calls neither the trigger,
\* the problem, the solver nor the statistics, adds no row to any series and
\* changes nothing of the rolling state; only the clock advances.
C5_GapHasNoSideEffect ==
    [][(InLoop /\ crnt_time \notin self.prices.index) =>
          /\ trace'.calls = <<>>
          /\ UNCHANGED <<data_history, reblncng_time_list, prev_prices, prev_asset_valtns,
                         prev_prtfl_valtn, prtfl_valtn, solver, problem, result_written>>
          /\ crnt_time' > crnt_time
          /\ pc' = "loop"]_vars

C5_Witness ==
    /\ trace.path = "gap"
    /\ trace.time > 0
    /\ Len(reblncng_time_list) > 0
    /\ Len(data_history["prtfl_valtn"]) > 1

UnknownKind ==
    \/ self.trigger_class = "unknown_trigger"
    \/ self.problem_class = "unknown_problem"
    \/ self.solver_class = "unknown_solver"

\* C6: with an unknown trigger, problem or solver kind execute raises before
\* the time loop: no date-time is processed, no row is recorded, no result
\* is written.
C6_UnknownKindIsFatal ==
    UnknownKind =>
        /\ pc \in {"setup", "raised"}
        /\ crnt_time = self.start_time
        /\ trace.time = 0 - 1
        /\ data_history = EmptyHistory
        /\ ~result_written

C6_Witness ==
    /\ pc = "raised"
    /\ self.trigger_class = "regular_basis"
    /\ self.problem_class = "risk_minimization"
    /\ self.solver_class = "unknown_solver"
    /\ trace.raised = Some("ValueError")

\* C7: every AllocationResult the Solver exposes has one proportion per
\* asset, each in [0,1], and the proportions sum to 1 within 1e-6.
C7_ProportionsValid ==
    ~IsNone(solver.asset_props_) =>
        LET props == Val(solver.asset_props_).value
            total == RSum(props)
        IN  /\ Len(props) = Len(self.prices.columns)
            /\ \A a \in DOMAIN props : RLe(Num(0), props[a]) /\ RLe(props[a], Num(1))
            /\ RLe(RSub(total, Num(1)), Rat(1, 1000000))
            /\ RLe(RSub(Num(1), total), Rat(1, 1000000))

\* no recorded realized asset return is <= -100%
NoTotalLoss ==
    \A i \in DOMAIN data_history["asset_returns"] :
        \A a \in DOMAIN data_history["asset_returns"][i].value :
            ~RLe(data_history["asset_returns"][i].value[a], Num(0 - 1))

\* C8: every recorded realized portfolio valuation is non-negative, provided
\* the initial valuation is non-negative and no realized asset return is
\* <= -100%.
C8_ValuationNonNegative ==
    (RLe(Num(0), self.init_prtfl_valtn) /\ NoTotalLoss) =>
        \A i \in DOMAIN data_history["prtfl_valtn"] :
            RLe(Num(0), data_history["prtfl_valtn"][i].value)

\* C9: the index of every series of the history is strictly increasing.
C9_IndexStrictlyIncreasing ==
    \A name \in SeriesNames :
        \A i \in 1 .. Len(data_history[name]) - 1 :
            data_history[name][i].index < data_history[name][i + 1].index

\* C10: IdenticalDistributionTest.assess without a previous window returns
\* mustRebalance = true and no diagnostic, whatever the current window, the
\* test method and the threshold are.
C10_FirstAssessRebalances ==
    (harness.fn = "identical_distribution_test" /\ ~IsNone(harness.result)
       /\ IsNone(harness.prev_prices)) =>
        /\ Val(harness.result).is_reblncng = TRUE
        /\ IsNone(Val(harness.result).idntcl_dstrbtn_prob)

C10_Witness ==
    /\ harness.fn = "identical_distribution_test"
    /\ IsNone(harness.prev_prices)
    /\ harness.test_method = "kolmogorov_smirnov"
    /\ harness.prob_thrshld = 1
    /\ ~IsNone(harness.result)
    /\ Val(harness.result).is_reblncng = TRUE

\* C11: IdenticalDistributionTest.assess with a previous window returns
\* mustRebalance = true exactly when some asset's p-value is <= prob_thrshld
\* (the least p-value is <= the threshold, equality included), and in both
\* cases returns as diagnostic one row, tagged with crnt_time, that holds one
\* p-value per asset.
C11_DistributionTestAssess ==
    (harness.fn = "identical_distribution_test" /\ ~IsNone(harness.result)
       /\ ~IsNone(harness.prev_prices)) =>
        LET r == Val(harness.result)
            thrshld == Rat(harness.prob_thrshld, 100)
        IN  /\ ~IsNone(r.idntcl_dstrbtn_prob)
            /\ Val(r.idntcl_dstrbtn_prob).index = harness.crnt_time
            /\ DOMAIN Val(r.idntcl_dstrbtn_prob).value = DOMAIN harness.columns
            /\ r.is_reblncng <=>
                  \E a \in DOMAIN harness.columns :
                      RLe(Val(r.idntcl_dstrbtn_prob).value[a], thrshld)

\* the least p-value equals the threshold and the test asks for a rebalance
C11_Witness ==
    /\ harness.fn = "identical_distribution_test"
    /\ ~IsNone(harness.prev_prices)
    /\ ~IsNone(harness.result)
    /\ harness.test_method = "kolmogorov_smirnov"
    /\ harness.prob_thrshld = 5
    /\ Val(harness.result).is_reblncng = TRUE
    /\ LET probs == Val(Val(harness.result).idntcl_dstrbtn_prob).value
       IN  /\ \E a \in DOMAIN probs : probs[a] = Rat(5, 100)
           /\ \A a \in DOMAIN probs : RLe(Rat(5, 100), probs[a])

\* the run uses the distribution test with a test method it does not support
UnsupportedMethod ==
    self.trigger_class = "identical_distribution_test"
      /\ self.test_method = "unsupported_method"

\* C12: with an unsupported test method the trigger does not fail: every
\* recorded p-value is undefined (NaN), every iteration that assesses after
\* the first successful rebalance gets mustRebalance = false and only holds,
\* and the run never has more than one rebalance.
C12_UnsupportedMethodDegrades ==
    UnsupportedMethod =>
        /\ Len(reblncng_time_list) <= 1
        /\ \A i \in DOMAIN data_history["idntcl_dstrbtn_prob"] :
              \A a \in DOMAIN data_history["idntcl_dstrbtn_prob"][i].value :
                  IsNaN(data_history["idntcl_dstrbtn_prob"][i].value[a])
        /\ (Len(reblncng_time_list) = 1 /\ trace.path \notin {"none", "gap"}
              /\ trace.time > reblncng_time_list[1]) =>
                /\ trace.is_reblncng = Some(FALSE)
                /\ trace.path = "hold"
                /\ IsNone(trace.raised)
                /\ Len(data_history["idntcl_dstrbtn_prob"]) > 0

C12_Witness ==
    /\ UnsupportedMethod
    /\ pc = "finished"
    /\ Len(reblncng_time_list) = 1
    /\ trace.path = "hold"
    /\ trace.is_reblncng = Some(FALSE)
    /\ Len(data_history["idntcl_dstrbtn_prob"]) >= 2

\* the price of an asset did not move over the window: its risk is exactly zero
FlatOver(asset_name, window) ==
    \A d \in window : \A e \in window : SamplePrice(asset_name, d) = SamplePrice(asset_name, e)

\* C13: SharpeRatioMaximization.define returns success = false exactly when
\* at least one asset of the window has an expected risk of exactly zero, and
\* RiskMinimization.define returns success = true; neither raises, the
\* formulation is built in both cases.
C13_DefineValidation ==
    (~IsNone(trace.define) /\ trace.time = Val(problem.crnt_time_)) =>
        LET columns == self.prices.columns
            window == Slice(self.prices, trace.time - self.window_day, trace.time - 1)
            zero_risk == \E a \in DOMAIN columns : FlatOver(columns[a], window)
        IN  /\ ~IsNone(problem.cncrt_model_)
            /\ self.problem_class = "sharpe_ratio_maximization" =>
                  (trace.define = Some(FALSE) <=> zero_risk)
            /\ self.problem_class = "risk_minimization" => trace.define = Some(TRUE)
            /\ trace.define = Some(FALSE) => IsNone(trace.raised) /\ pc # "raised"

\* a window in which an asset other than CASH did not move is rejected
C13_Witness ==
    /\ self.problem_class = "sharpe_ratio_maximization"
    /\ self.prices.columns = <<"ASSET0", "ASSET1">>
    /\ trace.define = Some(FALSE)
    /\ trace.path = "define_failed"

\* C14: MathematicalProgramming.solve gives a definite result for every
\* outcome of the engine: success = false on the terminations infeasible and
\* maxTimeLimit, success = true on every other one, and then the Solver
\* exposes the proportions, return and risk read back from the solution
\* point of the engine, tagged with the time of the formulation; no call
\* ends without a result.
C14_DefiniteSolveResult ==
    (self.solver_class = "mathematical_programming" /\ ~IsNone(trace.engine)) =>
        LET model == Val(problem.cncrt_model_)
        IN  /\ IsNone(trace.raised)
            /\ trace.solve = Some(Val(trace.engine) \notin {"infeasible", "maxTimeLimit"})
            /\ trace.solve = Some(TRUE) =>
                  /\ ~IsNone(model.asset_props)
                  /\ solver.asset_props_ = Some(Row(trace.time, Val(model.asset_props)))
                  /\ solver.prtfl_expctd_return_ =
                        Some(Row(trace.time, Val(model.prtfl_expctd_return)))
                  /\ solver.prtfl_expctd_risk_ =
                        Some(Row(trace.time, Val(model.prtfl_expctd_risk)))

\* the latest iteration called Solver.solve
SolveCalled == \E i \in DOMAIN trace.calls : trace.calls[i] = "solve"

\* C15: after EqualProportion.solve the formulation holds the proportion 1/N
\* for each of its N assets and, as portfolio expected return, the arithmetic
\* mean of the expected returns of the assets, whatever the objective of the
\* formulation is.
C15_EqualProportionPoint ==
    (self.solver_class = "equal_proportion" /\ SolveCalled) =>
        LET model == Val(problem.cncrt_model_)
            n == Len(self.prices.columns)
        IN  /\ ~IsNone(model.asset_props)
            /\ DOMAIN Val(model.asset_props) = 1 .. n
            /\ \A a \in 1 .. n : Val(model.asset_props)[a] = Rat(1, n)
            /\ model.prtfl_expctd_return =
                  Some(RDiv(RSum(model.asset_expctd_returns), Num(n)))

\* the formulation of a Sharpe-ratio problem whose assets differ in return
C15_Witness ==
    /\ self.solver_class = "equal_proportion"
    /\ self.problem_class = "sharpe_ratio_maximization"
    /\ SolveCalled
    /\ LET model == Val(problem.cncrt_model_)
       IN  /\ model.asset_expctd_returns[1] # model.asset_expctd_returns[2]
           /\ Val(model.asset_props) = <<Rat(1, 2), Rat(1, 2)>>

\* C16: a run whose three kinds are known goes through the whole horizon:
\* no iteration ends it with a failure, every iteration leaves the clock
\* later than it found it, and the run is finished only with
\* crnt_time > end_time and its results written.
C16_RunsToTheEnd ==
    ~UnknownKind =>
        /\ pc \in {"setup", "loop", "finished"}
        /\ (pc = "loop" /\ trace.time >= 0) => crnt_time > trace.time
        /\ pc = "finished" => (crnt_time > self.end_time /\ result_written)

\* the phase of the engine: 1 awaiting the first rebalance, 2 tracking,
\* 3 finished
Phase ==
    IF pc = "finished" THEN 3
    ELSE IF Len(reblncng_time_list) > 0 THEN 2
    ELSE 1

\* C17: the phase only moves forward (awaiting the first rebalance, tracking,
\* finished): every step keeps the rebalance-time list as a prefix of the
\* new one and appends at most one time, later than all the times before it,
\* so that the list is strictly increasing and never becomes empty again.
C17_PhaseOnlyForward ==
    [][/\ Phase' >= Phase
       /\ Len(reblncng_time_list') \in {Len(reblncng_time_list), Len(reblncng_time_list) + 1}
       /\ SubSeq(reblncng_time_list', 1, Len(reblncng_time_list)) = reblncng_time_list
       /\ \A i \in 1 .. Len(reblncng_time_list') - 1 :
             reblncng_time_list'[i] < reblncng_time_list'[i + 1]
       /\ pc = "finished" => pc' = "finished"]_vars

\* a failed solve after two rebalances: the engine is still tracking
C17_Witness ==
    /\ Len(reblncng_time_list) >= 2
    /\ trace.path = "solve_failed"
    /\ pc = "loop"

\* C18: no look-ahead.  In an iteration at a time t with prices, the window
\* handed to Trigger.assess and to Problem.define holds only rows of the
\* table dated within [t - window_day, t - 1], the slice of the observed and
\* realized tracks holds only rows dated within [last rebalance, t - 1], and
\* every recorded expected or observed row rests on prices dated before
\* the time it is recorded at.
C18_NoLookAhead ==
    /\ trace.path \notin {"none", "gap"} =>
          LET t == trace.time
          IN  /\ ~IsNone(trace.crnt_prices)
              /\ \A d \in Val(trace.crnt_prices) :
                    d \in self.prices.index /\ t - self.window_day <= d /\ d <= t - 1
              /\ (~IsNone(trace.define) /\ problem.crnt_time_ = Some(t)) =>
                    Val(problem.cncrt_model_).window = Val(trace.crnt_prices)
              /\ ~IsNone(trace.prev_crnt_prices) =>
                    \A d \in Val(trace.prev_crnt_prices) :
                        d \in self.prices.index /\ d <= t - 1
    /\ \A name \in {"asset_obsrvd_returns", "asset_obsrvd_risks", "prtfl_obsrvd_return",
                     "prtfl_obsrvd_risk"} :
          \A i \in DOMAIN data_history[name] :
              data_history[name][i].value.last < data_history[name][i].index
    /\ \A i \in DOMAIN data_history["asset_expctd_risks"] :
          \A d \in data_history["asset_expctd_risks"][i].value.window :
              d < data_history["asset_expctd_risks"][i].index
    /\ ~IsNone(prev_prices) =>
          \A d \in Val(prev_prices) : d < Last(reblncng_time_list)

\* a tracked step in the middle of the table: later prices exist and the
\* slices stop at the day before
C18_Witness ==
    /\ trace.path = "rebalanced"
    /\ trace.time + 1 \in self.prices.index
    /\ ~IsNone(trace.prev_crnt_prices)
    /\ Max(Val(trace.prev_crnt_prices)) = trace.time - 1
    /\ Max(Val(trace.crnt_prices)) = trace.time - 1
    /\ Len(data_history["asset_obsrvd_returns"]) > 0

Called(name) == \E i \in DOMAIN trace.calls : trace.calls[i] = name

\* C19: an iteration at a time with prices calls Trigger.assess, then does
\* the bookkeeping of the tracks, then calls Problem.define, then
\* Solver.solve, each at most once and in this order; define is called
\* exactly when assess returned true, solve exactly when define returned
\* success, and the tracks get their row of this time whether or not the
\* trigger fired.
C19_CallOrder ==
    trace.path \notin {"none", "gap"} =>
        /\ trace.calls \in {<<"assess">>, <<"assess", "define">>,
                            <<"assess", "define", "solve">>,
                            <<"assess", "statistics">>,
                            <<"assess", "statistics", "define">>,
                            <<"assess", "statistics", "define", "solve">>}
        /\ ~IsNone(trace.is_reblncng)
        /\ Called("define") <=> trace.is_reblncng = Some(TRUE)
        /\ Called("define") <=> ~IsNone(trace.define)
        /\ Called("solve") <=> trace.define = Some(TRUE)
        /\ Len(data_history["prtfl_valtn"]) > 0
        /\ Last(data_history["prtfl_valtn"]).index = trace.time
        /\ Called("statistics") <=>
              /\ Len(data_history["prtfl_return"]) > 0
              /\ Last(data_history["prtfl_return"]).index = trace.time
              /\ Len(data_history["prtfl_obsrvd_return"]) > 0
              /\ Last(data_history["prtfl_obsrvd_return"]).index = trace.time
              /\ Len(data_history["prtfl_expctd_return"]) > 0

\* a step whose trigger did not fire and whose tracks were updated
C19_Witness ==
    /\ trace.path = "hold"
    /\ trace.is_reblncng = Some(FALSE)
    /\ trace.calls = <<"assess", "statistics">>
    /\ Last(data_history["prtfl_return"]).index = trace.time

\* C20: a successful rebalance at time t sets the asset valuations to the
\* just-solved proportions times the realized portfolio valuation of step t
\* (their sum is that valuation when the proportions sum to 1), appends one
\* row of time t to the proportion history and to the rebalanced-valuation
\* history, and leaves the rolling state at: last rebalance time t, previous
\* window the window of step t, last asset valuations the new valuations,
\* last portfolio valuation the realized valuation of step t; the clock
\* advances by the minimum interval.
C20_RebalanceBookkeeping ==
    [][(InLoop /\ trace'.path = "rebalanced") =>
          LET t == crnt_time
              props == Val(solver'.asset_props_).value
              valtn == Last(data_history'["prtfl_valtn"])
              reblncd == [a \in DOMAIN props |-> RMul(valtn.value, props[a])]
          IN  /\ valtn.index = t
              /\ prtfl_valtn' = Some(valtn.value)
              /\ data_history'["asset_props"] =
                    Append(data_history["asset_props"], Row(t, props))
              /\ data_history'["asset_valtns_reblncd"] =
                    Append(data_history["asset_valtns_reblncd"], Row(t, reblncd))
              /\ RSum(props) = Num(1) => RSum(reblncd) = valtn.value
              /\ reblncng_time_list' = Append(reblncng_time_list, t)
              /\ prev_prices' = Some(Slice(self.prices, t - self.window_day, t - 1))
              /\ prev_asset_valtns' = Some(reblncd)
              /\ prev_prtfl_valtn' = Some(valtn.value)
              /\ crnt_time' = t + self.min_reblncng_intrvl_day
              /\ pc' = "loop"]_vars

\* a second rebalance, at a valuation that moved away from the initial one
C20_Witness ==
    /\ trace.path = "rebalanced"
    /\ Len(reblncng_time_list) >= 2
    /\ Len(data_history["asset_props"]) >= 2
    /\ prev_prtfl_valtn # Some(self.init_prtfl_valtn)
    /\ ~IsNaN(Val(prev_prtfl_valtn))
    /\ RSum(Val(prev_asset_valtns)) = Val(prev_prtfl_valtn)

\* the step about to be taken is a tracking step: it computes the three tracks
TrackingStep == InLoop /\ \E i \in DOMAIN trace'.calls : trace'.calls[i] = "statistics"

\* C21: a tracking step appends one row to every expected-track series and
\* gives it the time of the previous executed step, that is the time of the
\* latest row of the realized portfolio valuation before the step; the rows
\* every series had before the step stay as they were.
C21_ExpectedRowAtPreviousStep ==
    [][TrackingStep =>
          /\ \A name \in SeriesNames :
                /\ Len(data_history'[name]) >= Len(data_history[name])
                /\ SubSeq(data_history'[name], 1, Len(data_history[name])) = data_history[name]
          /\ \A name \in ExpctdSeries :
                /\ Len(data_history'[name]) = Len(data_history[name]) + 1
                /\ Last(data_history'[name]).index = Last(data_history["prtfl_valtn"]).index]_vars

\* the step about to be taken is at a time with prices, after the first rebalance
StepAfterFirstRebalance ==
    InLoop /\ crnt_time \in self.prices.index /\ Len(reblncng_time_list) > 0

\* C22 as stated: every step with prices after the first rebalance records
\* the diagnostic of the trigger under the time of the previous executed
\* step, whether or not the trigger fired; with the RegularBasis trigger the
\* diagnostic history stays empty.
C22_DiagnosticAtPreviousTime ==
    [][StepAfterFirstRebalance =>
          IF self.trigger_class = "regular_basis"
          THEN data_history'["idntcl_dstrbtn_prob"] = <<>>
          ELSE /\ Len(data_history'["idntcl_dstrbtn_prob"])
                    = Len(data_history["idntcl_dstrbtn_prob"]) + 1
               /\ Last(data_history'["idntcl_dstrbtn_prob"]).index
                    = Last(data_history["prtfl_valtn"]).index]_vars

\* C22, amended: every step with prices after the first rebalance appends
\* the diagnostic of the trigger, one p-value per asset, to the history
\* under the time of the step itself (crnt_time), whether or not the
\* trigger fired; with the RegularBasis trigger the diagnostic history stays
\* empty.
C22_DiagnosticAtCurrentTime ==
    [][StepAfterFirstRebalance =>
          IF self.trigger_class = "regular_basis"
          THEN data_history'["idntcl_dstrbtn_prob"] = <<>>
          ELSE /\ Len(data_history'["idntcl_dstrbtn_prob"])
                    = Len(data_history["idntcl_dstrbtn_prob"]) + 1
               /\ SubSeq(data_history'["idntcl_dstrbtn_prob"], 1,
                         Len(data_history["idntcl_dstrbtn_prob"]))
                    = data_history["idntcl_dstrbtn_prob"]
               /\ Last(data_history'["idntcl_dstrbtn_prob"]).index = crnt_time
               /\ DOMAIN Last(data_history'["idntcl_dstrbtn_prob"]).value
                    = DOMAIN self.prices.columns]_vars

\* a step of the distribution test that did not fire and recorded its row
C22_Witness ==
    /\ self.trigger_class = "identical_distribution_test"
    /\ trace.path = "hold"
    /\ trace.is_reblncng = Some(FALSE)
    /\ Len(data_history["idntcl_dstrbtn_prob"]) >= 2
    /\ Last(data_history["idntcl_dstrbtn_prob"]).index = trace.time

\* the index of a series: its labels, in row order
IndexOf(series) == [i \in DOMAIN series |-> series[i].index]

\* C23: once the loop has ended and the two summary views are built, the
\* expected view and the observed view carry the same sequence of timestamps,
\* so that row k of one is the row k of the other.
C23_ViewsIndexAligned ==
    pc = "finished" =>
        IndexOf(data_history["prtfl_expctd_value"]) = IndexOf(data_history["prtfl_obsrvd_value"])

\* a price-bearing step that starts after the seed entries were recorded
StepAfterSeed ==
    InLoop /\ crnt_time \in self.prices.index /\ Len(data_history["prtfl_valtn"]) > 0

\* C24: the seed branch is taken once, at the first price-bearing step; every
\* later price-bearing step takes the tracking branch and adds no seed entry,
\* also when the first rebalance attempt failed in define or solve.
C24_SeedOnlyOnce == [][StepAfterSeed => TrackingStep]_vars

\* an iteration of the loop that runs to its end: a data gap, a hold, a failed
\* define, a failed solve or a rebalance
CompletedIteration ==
    InLoop /\ trace'.path \in {"gap", "hold", "define_failed", "solve_failed", "rebalanced"}

\* no day of the simulated interval lacks prices
GapFree == \A t \in self.start_time .. self.end_time : t \in self.prices.index

\* C25: every iteration of the loop (data gap, hold, failed define, failed
\* solve, rebalance) moves the clock by exactly min_reblncng_intrvl_day days.
C25_ClockStepsByMinInterval ==
    [][CompletedIteration => crnt_time' = crnt_time + self.min_reblncng_intrvl_day]_vars

\* C25, amended: an iteration at a timestamp that has prices moves the clock by
\* exactly min_reblncng_intrvl_day days and an iteration at a data gap by
\* exactly one day; on a calendar without gaps every processed timestamp is
\* start_time + k * min_reblncng_intrvl_day.
C25_ClockStepsByMinIntervalOrOneDay ==
    [][CompletedIteration =>
          /\ crnt_time' = crnt_time + (IF crnt_time \in self.prices.index
                                       THEN self.min_reblncng_intrvl_day ELSE 1)
          /\ GapFree => (crnt_time - self.start_time) % self.min_reblncng_intrvl_day = 0]_vars

\* a data gap was stepped over by one day where the minimum interval is two
C25_Witness ==
    /\ pc = "loop"
    /\ trace.path = "gap"
    /\ self.min_reblncng_intrvl_day = 2
    /\ crnt_time = trace.time + 1
    /\ Len(reblncng_time_list) > 0

\* a call of the distribution test, with a previous window and a supported
\* method, on assets that include the cash asset
CashAssessed ==
    /\ harness.fn = "identical_distribution_test"
    /\ ~IsNone(harness.result)
    /\ ~IsNone(harness.prev_prices)
    /\ harness.test_method \in {"anderson_darling", "kolmogorov_smirnov"}
    /\ \E a \in DOMAIN harness.columns : harness.columns[a] = "CASH"

\* the position of the cash asset among the columns
CashOf(columns) == CHOOSE a \in DOMAIN columns : columns[a] = "CASH"

\* the greatest p-value a test method can return
MaxPValue(test_method) == IF test_method = "anderson_darling" THEN Rat(25, 100) ELSE Num(1)

\* an asset other than cash has a p-value at or below the threshold
OtherAssetTriggers(probs, columns, prob_thrshld) ==
    \E a \in DOMAIN columns :
        columns[a] # "CASH" /\ RLe(probs[a], Rat(prob_thrshld, 100))

RegularRun == self.trigger_class = "regular_basis"

\* C27: with the RegularBasis trigger two consecutive rebalance times are at
\* least reblncng_intrvl_day days apart, whatever the calendar, the minimum
\* interval and the failures of define and solve.
C27_RebalancesSpaced ==
    RegularRun =>
        \A i \in 1 .. Len(reblncng_time_list) - 1 :
            reblncng_time_list[i + 1] - reblncng_time_list[i] >= self.reblncng_intrvl_day

\* a second rebalance exactly one interval after the first, and one that was
\* put off by a failure or a gap
C27_Witness ==
    /\ RegularRun
    /\ self.reblncng_intrvl_day = 2
    /\ Len(reblncng_time_list) = 2
    /\ reblncng_time_list[2] - reblncng_time_list[1] \in {2, 3}
    /\ trace.path = "rebalanced"

\* Problem.define was called at a time that did not become a rebalance time:
\* the attempt of that step failed and no rebalance has succeeded since
FailedAttemptPending ==
    /\ ~IsNone(problem.crnt_time_)
    /\ Len(reblncng_time_list) > 0 => Val(problem.crnt_time_) > Last(reblncng_time_list)

\* how often a call appears in the last iteration
Count(name) == Cardinality({i \in DOMAIN trace'.calls : trace'.calls[i] = name})

\* C28: with the RegularBasis trigger a rebalance that is due stays due until
\* it succeeds: after a failed define or solve the trigger returns true at
\* every following step that has prices and the attempt is made again, once
\* per step; before the first success every step that has prices attempts.
C28_DueUntilSuccess ==
    [][(RegularRun /\ InLoop /\ crnt_time \in self.prices.index
          /\ (FailedAttemptPending \/ Len(reblncng_time_list) = 0)) =>
            /\ trace'.is_reblncng = Some(TRUE)
            /\ Count("assess") = 1
            /\ Count("define") = 1
            /\ Count("solve") <= 1]_vars

\* the attempt of day 1 failed after the rebalance of day 0 and was made
\* again, with success, on day 2
C28_Witness ==
    /\ RegularRun
    /\ GapFree
    /\ self.reblncng_intrvl_day = 1
    /\ self.min_reblncng_intrvl_day = 1
    /\ reblncng_time_list = <<0, 2>>
    /\ trace.path = "rebalanced"
    /\ trace.time = 2

\* the number of rows of a series of the history after the step
RowsAfter(name) == Len(data_history'[name])

\* C29: after every step of the loop the proportion history, the history of
\* the rebalanced asset valuations and the rebalance-time list have the same
\* number of entries, and the expected, the observed and the realized
\* portfolio valuation have the same number of rows: one for every step that
\* had prices.
C29_HistorySizes ==
    [][InLoop =>
          /\ RowsAfter("asset_props") = Len(reblncng_time_list')
          /\ RowsAfter("asset_valtns_reblncd") = Len(reblncng_time_list')
          /\ RowsAfter("prtfl_expctd_valtn") = RowsAfter("prtfl_valtn")
          /\ RowsAfter("prtfl_obsrvd_valtn") = RowsAfter("prtfl_valtn")
          /\ RowsAfter("prtfl_valtn") =
                Len(data_history["prtfl_valtn"])
                  + (IF crnt_time \in self.prices.index THEN 1 ELSE 0)]_vars

\* two rebalances and a step between them that only tracked
C29_Witness ==
    /\ pc = "loop"
    /\ Len(reblncng_time_list) = 2
    /\ Len(data_history["asset_props"]) = 2
    /\ Len(data_history["asset_valtns_reblncd"]) = 2
    /\ Len(data_history["prtfl_valtn"]) = 3
    /\ Len(data_history["prtfl_expctd_valtn"]) = 3
    /\ Len(data_history["prtfl_obsrvd_valtn"]) = 3
    /\ trace.path = "rebalanced"

\* the five attributes of the Solver
SolverAttributes == {"asset_props_", "asset_expctd_returns_", "asset_expctd_risks_",
                     "prtfl_expctd_return_", "prtfl_expctd_risk_"}

\* C30: whenever a step starts after a rebalance, the result the Solver
\* exposes is the one of the last successful rebalance: every attribute is
\* tagged with the last rebalance time, and the rolling asset valuations are
\* the rolling portfolio valuation split by its proportions; steps in which
\* define rebuilt the formulation and define or solve failed do not change it.
C30_ExposedResultIsLastRebalance ==
    (pc = "loop" /\ Len(reblncng_time_list) > 0) =>
        /\ \A name \in SolverAttributes :
              /\ ~IsNone(solver[name])
              /\ Val(solver[name]).index = Last(reblncng_time_list)
        /\ ~IsNone(prev_asset_valtns)
        /\ ~IsNone(prev_prtfl_valtn)
        /\ DOMAIN Val(prev_asset_valtns) = DOMAIN Val(solver.asset_props_).value
        /\ \A a \in DOMAIN Val(prev_asset_valtns) :
              Val(prev_asset_valtns)[a] =
                  RMul(Val(prev_prtfl_valtn), Val(solver.asset_props_).value[a])

\* a tracking step is about to start after a step in which define rebuilt the
\* formulation for a later time and solve failed
C30_Witness ==
    /\ InLoop
    /\ crnt_time \in self.prices.index
    /\ Len(reblncng_time_list) > 0
    /\ trace.path = "solve_failed"
    /\ Val(problem.crnt_time_) > Last(reblncng_time_list)
    /\ Val(solver.asset_props_).index = Last(reblncng_time_list)
    /\ Val(prev_prtfl_valtn) # Num(1)

====
